---- MODULE Spec2Model ----
(***************************************************************************)
(* Audio-to-beats conversion (src/test/audio_to_beats.py): the             *)
(* AudioToBeatsConverter pipeline                                          *)
(*     __init__/validate -> load_audio -> detect_tempo -> analyze_with_*   *)
(*     -> build_track_data                                                 *)
(* as a state machine, one action per stage of convert(); and the          *)
(* streaming session script (src/test/test.py), its two coroutines as      *)
(* actions between awaits.                                                 *)
(*                                                                         *)
(* Number representation.  Python floats are modelled as exact rationals:  *)
(*   - a tempo is held in tenths of a BPM (tempo10 = 10 * BPM);            *)
(*   - times of note events are held in milliseconds;                      *)
(*   - a magnitude (a dB value of the spectral path, an amplitude of the   *)
(*     note-event back-ends) is held in hundredths;                        *)
(*   - a track volume is held in tenths (round(x, 1) keeps one decimal).   *)
(* A note name is the triple <<letter, accidental, octave>>; the string    *)
(* "U+266F" stands for the one-character accidental librosa's unicode      *)
(* spelling uses (MUSIC SHARP SIGN), "#" is the ASCII one.                 *)
(***************************************************************************)
EXTENDS Integers, Sequences, FiniteSets, TLC

VARIABLES
    pc,               \* stage of the conversion
    env,              \* import-time availability flags and numpy's scalar promotion
    config,           \* the AudioAnalysisConfig handed to the constructor
    error,            \* the exception that ended the run ("none" when none)
    load_reached,     \* load_audio has been entered
    audio,            \* the loaded waveform (y, sr), abstracted
    tempo10,          \* what detect_tempo returned, in tenths of a BPM
    analysis_result,  \* the dictionary an analyze_with_* method returned
    result,           \* the dictionary build_track_data returned
    note_events,      \* what the external detector reported in this call
    run,              \* the number of the convert() call on this converter
    first,            \* the inputs and the result of the first finished call
    main_pc,          \* run_music_generation: where the coroutine stands
    receiver_task,    \* the task running receive_audio_loop
    stop_event,       \* asyncio.Event: is_set()
    recorder,         \* the AudioRecorder: audio_data (a chunk list here), chunk_count
    stream,           \* session.receive(): the messages the server has delivered
    saved,            \* the calls of recorder.save(): what each one wrote
    send_error        \* the exception the send path ended with ("none" when none)

converter_vars == <<pc, env, config, error, load_reached, audio, tempo10, analysis_result,
                    result, note_events, run, first>>

session_vars == <<main_pc, receiver_task, stop_event, recorder, stream, saved, send_error>>

vars == <<converter_vars, session_vars>>

----------------------------------------------------------------------------
(* Arithmetic of Python on exact rationals n/d (d # 0)                     *)

Abs(n) == IF n < 0 THEN -n ELSE n

Min(a, b) == IF a <= b THEN a ELSE b

Max(a, b) == IF a >= b THEN a ELSE b

\* sign-normalised numerator and denominator
NormNum(n, d) == IF d < 0 THEN -n ELSE n

NormDen(d) == Abs(d)

\* math.floor(n/d)
Floor(n, d) == NormNum(n, d) \div NormDen(d)

\* math.ceil(n/d)
Ceil(n, d) == -((-NormNum(n, d)) \div NormDen(d))

\* int(n/d): truncation toward zero
Trunc(n, d) == IF NormNum(n, d) >= 0 THEN Floor(n, d) ELSE Ceil(n, d)

\* round(n/d): round half to even (Python 3 round, numpy around)
RoundHalfEven(n, d) ==
    LET fl == Floor(n, d)
        r2 == 2 * (NormNum(n, d) - fl * NormDen(d))
    IN  IF r2 < NormDen(d) THEN fl
        ELSE IF r2 > NormDen(d) THEN fl + 1
        ELSE IF fl % 2 = 0 THEN fl ELSE fl + 1

RECURSIVE SumSeq(_)
SumSeq(s) == IF s = <<>> THEN 0 ELSE Head(s) + SumSeq(Tail(s))

\* the finite set S itself, enumerated once (a filtered set is otherwise
\* re-evaluated by the model checker at every use)
Explicit(S) == {x : x \in S}

\* the elements of a finite set of integers in ascending order
Ascending(S) ==
    [i \in 1 .. Cardinality(S) |->
        CHOOSE s \in S : Cardinality({t \in S : t < s}) = i - 1]

----------------------------------------------------------------------------
(* Configuration constants and the 88 piano keys                           *)

DEFAULT_THRESHOLD_DB == 40

DEFAULT_HOP_LENGTH == 512

\* Full 88 piano keys, C8 down to A0
PIANO_NOTES ==
  <<
    <<"C", "", 8>>, <<"B", "", 7>>, <<"A", "#", 7>>, <<"A", "", 7>>,
    <<"G", "#", 7>>, <<"G", "", 7>>, <<"F", "#", 7>>, <<"F", "", 7>>,
    <<"E", "", 7>>, <<"D", "#", 7>>, <<"D", "", 7>>, <<"C", "#", 7>>,
    <<"C", "", 7>>, <<"B", "", 6>>, <<"A", "#", 6>>, <<"A", "", 6>>,
    <<"G", "#", 6>>, <<"G", "", 6>>, <<"F", "#", 6>>, <<"F", "", 6>>,
    <<"E", "", 6>>, <<"D", "#", 6>>, <<"D", "", 6>>, <<"C", "#", 6>>,
    <<"C", "", 6>>, <<"B", "", 5>>, <<"A", "#", 5>>, <<"A", "", 5>>,
    <<"G", "#", 5>>, <<"G", "", 5>>, <<"F", "#", 5>>, <<"F", "", 5>>,
    <<"E", "", 5>>, <<"D", "#", 5>>, <<"D", "", 5>>, <<"C", "#", 5>>,
    <<"C", "", 5>>, <<"B", "", 4>>, <<"A", "#", 4>>, <<"A", "", 4>>,
    <<"G", "#", 4>>, <<"G", "", 4>>, <<"F", "#", 4>>, <<"F", "", 4>>,
    <<"E", "", 4>>, <<"D", "#", 4>>, <<"D", "", 4>>, <<"C", "#", 4>>,
    <<"C", "", 4>>, <<"B", "", 3>>, <<"A", "#", 3>>, <<"A", "", 3>>,
    <<"G", "#", 3>>, <<"G", "", 3>>, <<"F", "#", 3>>, <<"F", "", 3>>,
    <<"E", "", 3>>, <<"D", "#", 3>>, <<"D", "", 3>>, <<"C", "#", 3>>,
    <<"C", "", 3>>, <<"B", "", 2>>, <<"A", "#", 2>>, <<"A", "", 2>>,
    <<"G", "#", 2>>, <<"G", "", 2>>, <<"F", "#", 2>>, <<"F", "", 2>>,
    <<"E", "", 2>>, <<"D", "#", 2>>, <<"D", "", 2>>, <<"C", "#", 2>>,
    <<"C", "", 2>>, <<"B", "", 1>>, <<"A", "#", 1>>, <<"A", "", 1>>,
    <<"G", "#", 1>>, <<"G", "", 1>>, <<"F", "#", 1>>, <<"F", "", 1>>,
    <<"E", "", 1>>, <<"D", "#", 1>>, <<"D", "", 1>>, <<"C", "#", 1>>,
    <<"C", "", 1>>, <<"B", "", 0>>, <<"A", "#", 0>>, <<"A", "", 0>>
  >>

\* the semitone of each letter within its octave (librosa.note_to_midi)
pitch_map == [l \in {"C", "D", "E", "F", "G", "A", "B"} |->
    CASE l = "C" -> 0 [] l = "D" -> 2 [] l = "E" -> 4 [] l = "F" -> 5
      [] l = "G" -> 7 [] l = "A" -> 9 [] l = "B" -> 11]

\* the semitone offset of an accidental (both spellings of the sharp parse)
acc_map(a) == IF a \in {"#", "U+266F"} THEN 1 ELSE 0

\* librosa.note_to_midi(note)
note_to_midi(note) == 12 * (note[3] + 1) + pitch_map[note[1]] + acc_map(note[2])

\* the twelve pitch classes librosa.midi_to_note spells (key C:maj, unicode=True)
midi_note_names ==
    << <<"C", "">>, <<"C", "U+266F">>, <<"D", "">>, <<"D", "U+266F">>,
       <<"E", "">>, <<"F", "">>, <<"F", "U+266F">>, <<"G", "">>,
       <<"G", "U+266F">>, <<"A", "">>, <<"A", "U+266F">>, <<"B", "">> >>

\* librosa.midi_to_note(midi): octave = midi // 12 - 1
midi_to_note(midi) ==
    LET pcl == midi_note_names[(midi % 12) + 1]
    IN  <<pcl[1], pcl[2], (midi \div 12) - 1>>

\* librosa.hz_to_note(cqt_frequencies(n_bins=88, fmin=A0, bins_per_octave=12)[bin_idx])
bin_to_note(bin_idx) == midi_to_note(note_to_midi(<<"A", "", 0>>) + bin_idx)

----------------------------------------------------------------------------
(* AudioAnalysisConfig                                                     *)

NoOverride == [some |-> FALSE, v10 |-> 0]

Override(v10) == [some |-> TRUE, v10 |-> v10]

\* the configurations a caller (the CLI, the API) constructs
Methods == {"librosa", "basic_pitch", "pop2piano", "essentia"}

BpmOverrides == {NoOverride, Override(0), Override(1400), Override(1405),
                 Override(-1200)}

MaxStepsValues == {15, 16, 24, 1024, 1025}

ThresholdValues == {9, 10, DEFAULT_THRESHOLD_DB, 80, 81}

Configs ==
    [method : Methods, bpm_override : BpmOverrides, max_steps : MaxStepsValues,
     threshold_db : ThresholdValues, hop_length : {DEFAULT_HOP_LENGTH}]

\* validate with the upper bound of max_steps left out
validate_no_upper_bound(cfg) ==
    IF cfg.method \notin {"librosa", "basic_pitch", "pop2piano"} THEN "ValueError"
    ELSE IF cfg.method = "basic_pitch" /\ ~env.BASIC_PITCH_AVAILABLE THEN "RuntimeError"
    ELSE IF cfg.method = "pop2piano" /\ ~env.POP2PIANO_AVAILABLE THEN "RuntimeError"
    ELSE IF cfg.max_steps < 16 THEN "ValueError"
    ELSE IF cfg.threshold_db < 10 \/ cfg.threshold_db > 80 THEN "ValueError"
    ELSE "none"

\* AudioAnalysisConfig.validate: the exception it raises, "none" when it returns
validate(cfg) ==
    IF cfg.method \notin {"librosa", "basic_pitch", "pop2piano"} THEN "ValueError"
    ELSE IF cfg.method = "basic_pitch" /\ ~env.BASIC_PITCH_AVAILABLE THEN "RuntimeError"
    ELSE IF cfg.method = "pop2piano" /\ ~env.POP2PIANO_AVAILABLE THEN "RuntimeError"
    ELSE IF cfg.max_steps < 16 \/ cfg.max_steps > 1024 THEN "ValueError"
    ELSE IF cfg.threshold_db < 10 \/ cfg.threshold_db > 80 THEN "ValueError"
    ELSE "none"

----------------------------------------------------------------------------
(* The audio behind a file path.  A decoded file is (y, sr) with y         *)
(* abstracted to its number of samples and to the clip it holds; a clip    *)
(* fixes the constant-Q magnitudes of every frame, in dB re full scale,    *)
(* -100 being the amin floor of amplitude_to_db (amplitude zero).          *)

Bins == 0 .. 87

Clips == {"silence", "tone_C4", "tone_Cs4", "chord", "edges", "melody"}

\* 20*log10 |CQT| of frame f, bin b (after the optional nn_filter)
RawDb(clip, f, b) ==
    CASE clip = "silence" -> -100
      [] clip = "tone_C4" ->
            IF b = 39 THEN -6 ELSE IF b \in {38, 40} THEN -30 ELSE -100
      [] clip = "tone_Cs4" ->
            IF b = 40 THEN -6 ELSE IF b \in {39, 41} THEN -30 ELSE -100
      [] clip = "chord" ->
            IF b = 39 THEN -3 ELSE IF b = 42 THEN -18 ELSE IF b = 46 THEN -33
            ELSE IF b = 51 THEN -58 ELSE -100
      [] clip = "edges" ->
            IF b = 0 THEN -3 ELSE IF b = 87 THEN -8
            ELSE IF b \in {60, 61} THEN -10 ELSE -100
      [] clip = "melody" ->
            IF f % 4 # 3 /\ b = 39 + 2 * (f % 3) THEN -6 ELSE -100

\* the lengths (in samples) and the sample rate of the files of the model
ShortSamples == 2048

LongSamples == 8192

SampleRate == 4096

File(n, clip) == [n_samples |-> n, sr |-> SampleRate, clip |-> clip]

AudioFiles ==
    {File(ShortSamples, "silence"), File(ShortSamples, "tone_C4"),
     File(ShortSamples, "tone_Cs4"), File(ShortSamples, "edges"),
     File(LongSamples, "chord"), File(LongSamples, "melody")}

NoAudio == [n_samples |-> 0, sr |-> 1, clip |-> "silence"]

\* what librosa.load does with the path: a waveform, or an exception
LoadOutcomes ==
    [ok : {TRUE}, err : {"none"}, file : AudioFiles]
      \cup [ok : {FALSE}, err : {"FileNotFoundError", "DecodeError"}, file : {NoAudio}]

\* the number of CQT frames of y at this hop length (centered frames)
n_frames(a, hop_length) == 1 + (a.n_samples \div hop_length)

\* librosa.beat.beat_track on the onset envelope: a tempo in tenths of a BPM
\* (0 when the envelope has no onset at all), or an exception
EstimatorOutcomes(a) ==
    [raised : {TRUE}, v10 : {0}]
      \cup [raised : {FALSE},
            v10 : IF a.clip = "silence" THEN {0} ELSE {600, 1200, 1500}]

----------------------------------------------------------------------------
(* AudioToBeatsConverter: construction, load_audio, detect_tempo           *)

EmptyAnalysis ==
    [tempo |-> 0, target_steps |-> 0, active_notes_data |-> <<>>,
     has_threshold_db |-> FALSE, threshold_db |-> 0, threshold_is_float |-> FALSE,
     mag_den |-> 1]

EmptyResult == [bpm |-> 0, stepCount |-> 0, tracks |-> <<>>]

\* no call of convert() has returned yet
NoRun == [done |-> FALSE, audio |-> NoAudio, tempo10 |-> 0, note_events |-> <<>>,
          result |-> EmptyResult]

\* The process environment: which optional back-ends imported, and numpy's
\* scalar promotion (legacy: np.float32 - float is an np.float64, a subclass of
\* float; NEP 50: it stays an np.float32, which is not)
Envs ==
    {[BASIC_PITCH_AVAILABLE |-> TRUE, POP2PIANO_AVAILABLE |-> FALSE, legacy_promotion |-> TRUE],
     [BASIC_PITCH_AVAILABLE |-> FALSE, POP2PIANO_AVAILABLE |-> TRUE, legacy_promotion |-> FALSE]}

\* the streaming script (src/test/test.py) is a separate program: not running
NoSession ==
    /\ main_pc = "not_started"
    /\ receiver_task = [state |-> "none", must_cancel |-> FALSE, cancel_called |-> FALSE]
    /\ stop_event = FALSE
    /\ recorder = [audio_data |-> <<>>, chunk_count |-> 0]
    /\ stream = [delivered |-> 0, open |-> FALSE]
    /\ saved = <<>>
    /\ send_error = "none"

Init ==
    /\ pc = "start"
    /\ env \in Envs
    /\ config \in Configs
    /\ error = "none"
    /\ load_reached = FALSE
    /\ audio = NoAudio
    /\ tempo10 = 0
    /\ analysis_result = EmptyAnalysis
    /\ result = EmptyResult
    /\ note_events = <<>>
    /\ run = 1
    /\ first = NoRun
    /\ NoSession

\* AudioToBeatsConverter.__init__: keep the config, then validate it
Construct ==
    /\ pc = "start"
    /\ error' = validate(config)
    /\ pc' = IF validate(config) = "none" THEN "constructed" ELSE "failed"
    /\ UNCHANGED <<env, config, load_reached, audio, tempo10, analysis_result, result,
                    note_events, run, first>>
    /\ UNCHANGED session_vars

\* convert() entering load_audio(file_path)
LoadAudio ==
    /\ pc = "constructed"
    /\ load_reached' = TRUE
    /\ \E o \in LoadOutcomes :
        /\ audio' = o.file
        /\ error' = o.err
        /\ pc' = IF o.ok THEN "loaded" ELSE "failed"
    /\ UNCHANGED <<env, config, tempo10, analysis_result, result, note_events, run, first>>
    /\ UNCHANGED session_vars

\* Python truthiness of config.bpm_override (None and 0.0 are false)
OverrideGiven(cfg) == cfg.bpm_override.some /\ cfg.bpm_override.v10 # 0

\* detect_tempo with the override tested after the estimator has run, inside
\* the try block: a failing estimator wins over the override
detect_tempo_estimator_first(cfg, est) ==
    IF est.raised THEN 1200
    ELSE IF OverrideGiven(cfg) THEN cfg.bpm_override.v10
    ELSE est.v10

\* detect_tempo(y, sr) for one outcome of the estimator
detect_tempo(cfg, est) ==
    IF OverrideGiven(cfg) THEN cfg.bpm_override.v10
    ELSE IF est.raised THEN 1200
    ELSE est.v10

DetectTempo ==
    /\ pc = "loaded"
    /\ \E est \in EstimatorOutcomes(audio) : tempo10' = detect_tempo(config, est)
    /\ pc' = "tempo"
    /\ UNCHANGED <<env, config, error, load_reached, audio, analysis_result, result,
                    note_events, run, first>>
    /\ UNCHANGED session_vars

----------------------------------------------------------------------------
(* The step grid and the note-activation dictionary                        *)

\* total_steps = int(math.ceil(total_duration / step_duration)) with
\* step_duration = 60 / tempo / 4 and total_duration = n_samples / sr
total_steps(a, t10) == Ceil(a.n_samples * t10, 150 * a.sr)

\* target_steps = min(max_steps, ((total_steps + 15) // 16) * 16)
target_steps(cfg, a, t10) ==
    Min(cfg.max_steps, ((total_steps(a, t10) + 15) \div 16) * 16)

EmptyDict == [n \in {} |-> 0]

NewEntry == [steps |-> {}, magnitudes |-> <<>>]

\* if note not in active_notes_data: active_notes_data[note] = {steps: set(), magnitudes: []}
Touch(data, note) ==
    IF note \in DOMAIN data THEN data
    ELSE [n \in DOMAIN data \cup {note} |-> IF n = note THEN NewEntry ELSE data[n]]

----------------------------------------------------------------------------
(* analyze_with_librosa                                                    *)

\* the largest raw magnitude of the whole matrix (ref=np.max)
RefDb(a, hop) ==
    LET cells == {RawDb(a.clip, f, b) : f \in 0 .. n_frames(a, hop) - 1, b \in Bins}
    IN  CHOOSE m \in cells : \A c \in cells : c <= m

\* librosa.amplitude_to_db(C_harm, ref=np.max): dB re the maximum, top_db = 80
C_db(a, ref, f, b) == Max(RawDb(a.clip, f, b) - ref, -80)

\* np.max(C_db)
max_db(a, hop, ref) ==
    LET cells == {C_db(a, ref, f, b) : f \in 0 .. n_frames(a, hop) - 1, b \in Bins}
    IN  CHOOSE m \in cells : \A c \in cells : c <= m

\* start_frame = int(step * frames_per_step), frames_per_step = step_duration * sr / hop
frame_of(a, hop, t10, step) == Trunc(step * 150 * a.sr, t10 * hop)

\* the spectrum of one step: the column start_frame, or the element-wise
\* maximum of the columns start_frame .. min(end_frame, shape[1]) - 1
step_spectrum(a, hop, ref, start_frame, end_frame) ==
    IF start_frame = end_frame
    THEN [b \in Bins |-> C_db(a, ref, start_frame, b)]
    ELSE LET last == Min(end_frame, n_frames(a, hop)) - 1
         IN  [b \in Bins |->
                LET col == {C_db(a, ref, f, b) : f \in start_frame .. last}
                IN  CHOOSE m \in col : \A c \in col : c <= m]

\* the bins where the spectrum rises into, and falls out of, a flat top
\* (never the first or the last sample, which have one neighbour only)
rising_edges(x) == Explicit({l \in 1 .. 86 : x[l - 1] < x[l]})

falling_edges(x) == Explicit({r \in 1 .. 86 : x[r + 1] < x[r]})

\* scipy's _local_maxima_1d: a rise at l, then equal samples up to r, then a
\* fall, is one peak, reported at the middle (l + r) // 2 of the flat top
local_maxima(x) ==
    LET rises == rising_edges(x)
        falls == falling_edges(x)
    IN  {(e[1] + e[2]) \div 2 :
            e \in {f \in rises \X falls :
                     /\ f[1] <= f[2]
                     /\ \A r \in falls : r >= f[1] => r >= f[2]
                     /\ \A l \in rises : l > f[1] => l > f[2]}}

\* find_peaks without the height argument: every local maximum is a peak
find_peaks_any_height(x, h) == local_maxima(x)

\* scipy.signal.find_peaks(x, height=h, distance=1): the local maxima of
\* height >= h (a distance of 1 removes none)
find_peaks(x, h) == {m \in local_maxima(x) : x[m] >= h}

\* the loop breaking one frame early: if start_frame >= C_db.shape[1] - 1: break
RECURSIVE steps_visited_early_break(_, _, _, _, _)
steps_visited_early_break(step, target, a, hop, t10) ==
    IF step >= target THEN {}
    ELSE IF frame_of(a, hop, t10, step) >= n_frames(a, hop) - 1 THEN {}
    ELSE {step} \cup steps_visited_early_break(step + 1, target, a, hop, t10)

\* for step in range(target_steps): the steps the loop body runs for; the loop
\* breaks at the first step whose start frame is past the last column
RECURSIVE steps_visited(_, _, _, _, _)
steps_visited(step, target, a, hop, t10) ==
    IF step >= target THEN {}
    ELSE IF frame_of(a, hop, t10, step) >= n_frames(a, hop) THEN {}
    ELSE {step} \cup steps_visited(step + 1, target, a, hop, t10)

\* one run of the loop body: the (step, bin_idx, mag) of every peak of the step
step_peaks(step, a, hop, t10, ref, threshold) ==
    LET x == step_spectrum(a, hop, ref, frame_of(a, hop, t10, step),
                           frame_of(a, hop, t10, step + 1))
    IN  {<<step, bin_idx, 100 * x[bin_idx]>> : bin_idx \in find_peaks(x, threshold)}

\* The dictionary the loop leaves behind.  Step by step, for every peak bin of
\* the step's spectrum the loop adds the step to the entry of the bin's note and
\* appends the magnitude there, so an entry lists its magnitudes in step order.
step_loop(target, a, hop, t10, ref, threshold) ==
    LET visited == Explicit(steps_visited(0, target, a, hop, t10))
        hits == Explicit(UNION {step_peaks(s, a, hop, t10, ref, threshold) : s \in visited})
    IN  [note \in {bin_to_note(h[2]) : h \in hits} |->
            LET mine == Explicit({h \in hits : bin_to_note(h[2]) = note})
                order == Ascending({h[1] : h \in mine})
            IN  [steps |-> {h[1] : h \in mine},
                 magnitudes |->
                    [i \in DOMAIN order |-> (CHOOSE h \in mine : h[1] = order[i])[3]]]]

\* the cutoff measured up from the top_db floor instead of down from the
\* maximum: threshold_db = (max_db - 80) + config.threshold_db
cutoff_db_from_floor(cfg, a) ==
    (max_db(a, cfg.hop_length, RefDb(a, cfg.hop_length)) - 80) + cfg.threshold_db

\* the cutoff: threshold_db = max_db - config.threshold_db
cutoff_db(cfg, a) ==
    max_db(a, cfg.hop_length, RefDb(a, cfg.hop_length)) - cfg.threshold_db

\* the active_notes_data analyze_with_librosa builds (tempo # 0)
librosa_notes(cfg, a, t10) ==
    step_loop(target_steps(cfg, a, t10), a, cfg.hop_length, t10,
              RefDb(a, cfg.hop_length), cutoff_db(cfg, a))

\* analyze_with_librosa(y, sr, tempo): the dictionary it returns
analyze_with_librosa(cfg, a, t10, legacy) ==
    [tempo |-> t10,
     target_steps |-> target_steps(cfg, a, t10),
     active_notes_data |-> librosa_notes(cfg, a, t10),
     has_threshold_db |-> TRUE,
     threshold_db |-> cutoff_db(cfg, a),
     threshold_is_float |-> legacy,
     mag_den |-> 100]

----------------------------------------------------------------------------
(* analyze_with_basic_pitch, analyze_with_pop2piano: the note events of    *)
(* the model back-end, (start, end, pitch, amp): times in milliseconds,    *)
(* amp the amplitude in hundredths (Basic Pitch) or the MIDI velocity      *)
(* 0..127 (Pop2Piano).                                                     *)

Ev(s, e, p, m) == [start_ms |-> s, end_ms |-> e, pitch_midi |-> p, amp |-> m]

NoteEventLists ==
    { <<>>,
      << Ev(0, 400, 60, 50) >>,
      << Ev(0, 240, 60, 100), Ev(250, 500, 61, 80), Ev(125, 300, 60, 20) >>,
      << Ev(1900, 1990, 64, 30), Ev(0, 100, 20, 90), Ev(1000, 1980, 108, 0) >> }

\* the event lists a back-end can report for this audio: no note ends after it
EventsFor(a) ==
    {evs \in NoteEventLists :
        \A i \in DOMAIN evs : evs[i].end_ms * a.sr <= 1000 * a.n_samples}

\* int(t / step_duration)
step_of(ms, t10) == Trunc(ms * t10, 150000)

\* for step in range(start_step, stop): add the step, append the amplitude
record_range(data, note, start_step, stop, mag) ==
    [n \in DOMAIN data |->
        IF n = note
        THEN [steps |-> data[n].steps \cup (start_step .. stop - 1),
              magnitudes |-> data[n].magnitudes
                               \o [i \in 1 .. Max(0, stop - start_step) |-> mag]]
        ELSE data[n]]

\* for start_time, end_time, pitch_midi, amplitude in note_events: ...
RECURSIVE event_loop(_, _, _, _)
event_loop(data, evs, t10, target) ==
    IF evs = <<>> THEN data
    ELSE LET ev == Head(evs)
             note_name == midi_to_note(ev.pitch_midi)
             start_step == step_of(ev.start_ms, t10)
             end_step == step_of(ev.end_ms, t10)
         IN  event_loop(record_range(Touch(data, note_name), note_name, start_step,
                                     Min(end_step + 1, target), ev.amp),
                        Tail(evs), t10, target)

\* the dictionary both adapters return (no "threshold_db" key); den is the
\* scale of the amplitudes: amplitude = amp / den
analyze_with_events(cfg, a, t10, evs, den) ==
    [tempo |-> t10,
     target_steps |-> target_steps(cfg, a, t10),
     active_notes_data |-> event_loop(EmptyDict, evs, t10, target_steps(cfg, a, t10)),
     has_threshold_db |-> FALSE,
     threshold_db |-> 0,
     threshold_is_float |-> FALSE,
     mag_den |-> den]

\* analyze_with_basic_pitch(file_path, tempo): amplitude as reported
analyze_with_basic_pitch(cfg, a, t10, evs) == analyze_with_events(cfg, a, t10, evs, 100)

\* analyze_with_pop2piano(file_path, tempo): amplitude = note.velocity / 127.0
analyze_with_pop2piano(cfg, a, t10, evs) == analyze_with_events(cfg, a, t10, evs, 127)

\* convert(): the analysis chosen by config.method.  Every method starts with
\* seconds_per_beat = 60.0 / tempo, a ZeroDivisionError when tempo is 0.
Analyze ==
    /\ pc = "tempo"
    /\ IF tempo10 = 0
       THEN /\ error' = "ZeroDivisionError"
            /\ pc' = "failed"
            /\ UNCHANGED <<analysis_result, note_events>>
       ELSE /\ pc' = "analyzed"
            /\ UNCHANGED error
            /\ \/ /\ config.method = "basic_pitch"
                  /\ \E evs \in EventsFor(audio) :
                        /\ note_events' = evs
                        /\ analysis_result' =
                              analyze_with_basic_pitch(config, audio, tempo10, evs)
               \/ /\ config.method = "pop2piano"
                  /\ \E evs \in EventsFor(audio) :
                        /\ note_events' = evs
                        /\ analysis_result' =
                              analyze_with_pop2piano(config, audio, tempo10, evs)
               \/ /\ config.method \notin {"basic_pitch", "pop2piano"}
                  /\ note_events' = <<>>
                  /\ analysis_result' =
                        analyze_with_librosa(config, audio, tempo10, env.legacy_promotion)
    /\ UNCHANGED <<env, config, load_reached, audio, tempo10, result, run, first>>
    /\ UNCHANGED session_vars

----------------------------------------------------------------------------
(* build_track_data                                                        *)

\* threshold_db = analysis_result.get("threshold_db", -self.config.threshold_db)
threshold_used(cfg, ar) ==
    IF ar.has_threshold_db
    THEN [v |-> ar.threshold_db, is_float |-> ar.threshold_is_float]
    ELSE [v |-> -cfg.threshold_db, is_float |-> TRUE]

\* isinstance(threshold_db, (int, float)) and threshold_db < 0
db_branch(cfg, ar) == threshold_used(cfg, ar).is_float /\ threshold_used(cfg, ar).v < 0

\* len(pattern) for pattern = [False] * target_steps
pattern_len(target) == Max(0, target)

\* pattern[s] = True is an IndexError: s is outside -len .. len - 1
index_error(s, target) == s >= pattern_len(target) \/ s < -pattern_len(target)

\* fill_pattern without the guard, an index past the end landing on the last
\* position: pattern[min(s, target_steps - 1)] = True
fill_pattern_saturating(steps, target) ==
    [i \in 1 .. pattern_len(target) |->
        \E s \in steps : i - 1 = Min(s, pattern_len(target) - 1)]

\* the pattern after "for s in steps: if s < target_steps: pattern[s] = True"
\* (Python indexes from the end for a negative s)
fill_pattern(steps, target) ==
    [i \in 1 .. pattern_len(target) |->
        \E s \in steps :
            /\ s < target
            /\ (i - 1 = s \/ i - 1 = s + pattern_len(target))]

NaN == [nan |-> TRUE, v10 |-> 0]

Num(v10) == [nan |-> FALSE, v10 |-> v10]

\* round(-30 + norm_vol * 30, 1), norm_vol = (avg_mag - threshold_db) / config.threshold_db
db_volume(sum, n, den, thr, cfg_thr) ==
    Num(RoundHalfEven(300 * (sum - thr * den * n) - 300 * den * n * cfg_thr,
                      den * n * cfg_thr))

\* round(-30 + avg_mag * 30, 1)
amp_volume(sum, n, den) == Num(RoundHalfEven(300 * sum - 300 * den * n, den * n))

\* the volume before clamping; np.mean([]) is nan
raw_volume(cfg, ar, mags) ==
    IF Len(mags) = 0 THEN NaN
    ELSE IF db_branch(cfg, ar)
    THEN db_volume(SumSeq(mags), Len(mags), ar.mag_den, threshold_used(cfg, ar).v,
                   cfg.threshold_db)
    ELSE amp_volume(SumSeq(mags), Len(mags), ar.mag_den)

\* clamp_volume with the lower bound left out: track_vol = min(0, track_vol)
clamp_volume_no_floor(x) == IF x.nan THEN 0 ELSE Min(0, x.v10)

\* track_vol = max(-40, min(0, track_vol)); every comparison with nan is false,
\* so min(0, nan) is 0
clamp_volume(x) == IF x.nan THEN 0 ELSE Max(-400, Min(0, x.v10))

\* the settings with the offset taken the other way round: base_c4_midi - midi_val
default_settings_from_note_to_c4(semitones) ==
    [pitch |-> -semitones, decay100 |-> 50, attack100 |-> 1, distortion |-> 0,
     sustain100 |-> 30, release100 |-> 80, cutoff |-> 20000, resonance |-> 1]

\* track["settings"]: the semitone offset and the fixed envelope defaults
\* (decay 0.5, attack 0.01, sustain 0.3, release 0.8 held in hundredths)
default_settings(semitones) ==
    [pitch |-> semitones, decay100 |-> 50, attack100 |-> 1, distortion |-> 0,
     sustain100 |-> 30, release100 |-> 80, cutoff |-> 20000, resonance |-> 1]

\* one iteration of "for note in PIANO_NOTES": the track appended
build_track(cfg, ar, note) ==
    LET data == ar.active_notes_data
        detected == note \in DOMAIN data
    IN  [id |-> <<"piano-", note>>,
         name |-> note,
         type |-> "piano",
         steps |-> fill_pattern(IF detected THEN data[note].steps ELSE {},
                                ar.target_steps),
         mute |-> FALSE,
         solo |-> FALSE,
         volume |-> IF detected
                    THEN clamp_volume(raw_volume(cfg, ar, data[note].magnitudes))
                    ELSE -50,
         pan |-> 0,
         settings |-> default_settings(note_to_midi(note) - note_to_midi(<<"C", "", 4>>)),
         hidden |-> ~detected]

\* apply_fallback with the band's upper end excluded: 48 <= m < 72
apply_fallback_short_band(tracks) ==
    IF \A k \in DOMAIN tracks : tracks[k].hidden
    THEN [k \in DOMAIN tracks |->
            IF 48 <= note_to_midi(tracks[k].name) /\ note_to_midi(tracks[k].name) < 72
            THEN [tracks[k] EXCEPT !.hidden = FALSE]
            ELSE tracks[k]]
    ELSE tracks

\* Fallback: if no notes detected, show middle range (C3 to C5)
apply_fallback(tracks) ==
    IF \A k \in DOMAIN tracks : tracks[k].hidden
    THEN [k \in DOMAIN tracks |->
            IF 48 <= note_to_midi(tracks[k].name) /\ note_to_midi(tracks[k].name) <= 72
            THEN [tracks[k] EXCEPT !.hidden = FALSE]
            ELSE tracks[k]]
    ELSE tracks

\* build_track_data raises: some pattern[s] = True is out of range
build_raises(ar) ==
    \E k \in DOMAIN PIANO_NOTES :
        /\ PIANO_NOTES[k] \in DOMAIN ar.active_notes_data
        /\ \E s \in ar.active_notes_data[PIANO_NOTES[k]].steps :
              s < ar.target_steps /\ index_error(s, ar.target_steps)

\* build_track_data(analysis_result): the dictionary it returns
build_track_data(cfg, ar) ==
    [bpm |-> RoundHalfEven(ar.tempo, 10),
     stepCount |-> ar.target_steps,
     tracks |-> apply_fallback([k \in DOMAIN PIANO_NOTES |->
                                    build_track(cfg, ar, PIANO_NOTES[k])])]

BuildTrackData ==
    /\ pc = "analyzed"
    /\ IF build_raises(analysis_result)
       THEN /\ error' = "IndexError"
            /\ pc' = "failed"
            /\ UNCHANGED result
       ELSE /\ result' = build_track_data(config, analysis_result)
            /\ pc' = "done"
            /\ UNCHANGED error
    /\ UNCHANGED <<env, config, load_reached, audio, tempo10, analysis_result,
                    note_events, run, first>>
    /\ UNCHANGED session_vars

Next == Construct \/ LoadAudio \/ DetectTempo \/ Analyze \/ BuildTrackData

Spec == Init /\ [][Next]_vars

----------------------------------------------------------------------------
(* build_track_data called on its own.  It is a public method that takes   *)
(* any dictionary of the shape the analysis methods return; here the       *)
(* dictionary has one activation record whose step indices are natural     *)
(* numbers on either side of target_steps.                                 *)

\* the target_steps of the dictionaries handed to build_track_data
BuildTargets == {16, 24}

\* the step indices a record can hold
BuildSteps == {0, 1, 15, 16, 23, 24}

\* the notes that carry the record
BuildNotes == {<<"C", "", 4>>, <<"A", "", 0>>, <<"C", "#", 4>>}

\* an analysis result with one record, its magnitudes amplitudes of 0.5
OneRecord(target, note, steps) ==
    [tempo |-> 1200,
     target_steps |-> target,
     active_notes_data |->
        [n \in {note} |->
            [steps |-> steps, magnitudes |-> [i \in 1 .. Cardinality(steps) |-> 50]]],
     has_threshold_db |-> FALSE,
     threshold_db |-> 0,
     threshold_is_float |-> FALSE,
     mag_den |-> 100]

InitBuild ==
    /\ pc = "analyzed"
    /\ env \in Envs
    /\ config = [method |-> "librosa", bpm_override |-> NoOverride, max_steps |-> 1024,
                 threshold_db |-> DEFAULT_THRESHOLD_DB, hop_length |-> DEFAULT_HOP_LENGTH]
    /\ error = "none"
    /\ load_reached = TRUE
    /\ audio = NoAudio
    /\ tempo10 = 1200
    /\ \E target \in BuildTargets, note \in BuildNotes, steps \in SUBSET BuildSteps :
          analysis_result = OneRecord(target, note, steps)
    /\ result = EmptyResult
    /\ note_events = <<>>
    /\ run = 1
    /\ first = NoRun
    /\ NoSession

SpecBuild == InitBuild /\ [][BuildTrackData]_vars

----------------------------------------------------------------------------
(* One converter, several calls of convert().  convert() keeps everything  *)
(* it computes in locals (y, sr, tempo, analysis_result, result), which    *)
(* are gone when it returns; the converter itself holds self.config only,  *)
(* and no stage assigns to it.                                             *)

\* the largest number of convert() calls made on one converter
MaxRuns == 3

\* the configurations of the converters that are called repeatedly
RepeatedConfigs ==
    {cfg \in Configs :
        /\ cfg.method \in {"librosa", "basic_pitch", "pop2piano"}
        /\ cfg.bpm_override = NoOverride
        /\ cfg.max_steps = 1024
        /\ cfg.threshold_db = DEFAULT_THRESHOLD_DB}

InitRepeated == Init /\ config \in RepeatedConfigs

\* convert() returning and being called again with the step count of the
\* finished call written back into self.config.max_steps
ConvertAgainCappingSteps ==
    /\ pc = "done"
    /\ run < MaxRuns
    /\ run' = run + 1
    /\ first' = IF first.done THEN first
                ELSE [done |-> TRUE, audio |-> audio, tempo10 |-> tempo10,
                      note_events |-> note_events, result |-> result]
    /\ pc' = "constructed"
    /\ config' = [config EXCEPT !.max_steps = result.stepCount]
    /\ audio' = NoAudio
    /\ tempo10' = 0
    /\ analysis_result' = EmptyAnalysis
    /\ result' = EmptyResult
    /\ note_events' = <<>>
    /\ UNCHANGED <<env, error, load_reached>>
    /\ UNCHANGED session_vars

\* convert() returning its result, and the caller calling convert() again on
\* the same converter: the locals of the finished call are gone, self.config
\* is as it was
ConvertAgain ==
    /\ pc = "done"
    /\ run < MaxRuns
    /\ run' = run + 1
    /\ first' = IF first.done THEN first
                ELSE [done |-> TRUE, audio |-> audio, tempo10 |-> tempo10,
                      note_events |-> note_events, result |-> result]
    /\ pc' = "constructed"
    /\ audio' = NoAudio
    /\ tempo10' = 0
    /\ analysis_result' = EmptyAnalysis
    /\ result' = EmptyResult
    /\ note_events' = <<>>
    /\ UNCHANGED <<env, config, error, load_reached>>
    /\ UNCHANGED session_vars

NextRepeated == Next \/ ConvertAgain

SpecRepeated == InitRepeated /\ [][NextRepeated]_vars

----------------------------------------------------------------------------
(* The streaming session script, src/test/test.py.  run_music_generation   *)
(* and receive_audio_loop are two coroutines of one asyncio event loop: a  *)
(* coroutine runs without interruption from one await to the next, so an   *)
(* action is the code between two awaits.                                  *)

\* the largest number of messages the server delivers in one session
MaxMessages == 3

\* the largest number of audio chunks in one message
MaxChunksPerMessage == 2

\* AudioRecorder.add_data(data)
add_data(rec, data) ==
    [audio_data |-> Append(rec.audio_data, data), chunk_count |-> rec.chunk_count + 1]

\* for chunk in message.server_content.audio_chunks: recorder.add_data(chunk.data)
RECURSIVE add_chunks(_, _)
add_chunks(rec, chunks) ==
    IF chunks = <<>> THEN rec
    ELSE add_chunks(add_data(rec, Head(chunks)), Tail(chunks))

\* the audio chunks of message m when it carries n of them
audio_chunks(m, n) == [i \in 1 .. n |-> <<m, i>>]

\* the awaits of the send path, in order
SendAwaits ==
    {"set_music_generation_config", "send", "set_weighted_prompts", "play", "sleep"}

\* the await that follows await p when p returns (the context audio is sent
\* only when input_audio_path names an existing file)
next_await(p, with_audio) ==
    CASE p = "set_music_generation_config" ->
            IF with_audio THEN "send" ELSE "set_weighted_prompts"
      [] p = "send" -> "set_weighted_prompts"
      [] p = "set_weighted_prompts" -> "play"
      [] p = "play" -> "sleep"

\* receiver_task.cancel(): a task that has not finished is marked, and its next
\* step raises CancelledError inside the coroutine; a finished one is left alone
cancel(task) ==
    [task EXCEPT !.cancel_called = TRUE, !.must_cancel = (task.state # "done")]

\* "await receiver_task" going on at once without waiting for the task
await_returns_at_once(task) == TRUE

\* "await receiver_task" returns (or raises CancelledError) once the task is done
await_returns(task) == task.state = "done"

\* what a call of recorder.save() writes, and the state it was called in
save(rec, task, event) ==
    [audio_data |-> rec.audio_data, receiver_state |-> task.state,
     cancel_called |-> task.cancel_called, stop_event |-> event]

NoTask == [state |-> "none", must_cancel |-> FALSE, cancel_called |-> FALSE]

InitSession ==
    /\ pc = "none"
    /\ env = [BASIC_PITCH_AVAILABLE |-> FALSE, POP2PIANO_AVAILABLE |-> FALSE,
              legacy_promotion |-> FALSE]
    /\ config = [method |-> "librosa", bpm_override |-> NoOverride, max_steps |-> 1024,
                 threshold_db |-> DEFAULT_THRESHOLD_DB, hop_length |-> DEFAULT_HOP_LENGTH]
    /\ error = "none"
    /\ load_reached = FALSE
    /\ audio = NoAudio
    /\ tempo10 = 0
    /\ analysis_result = EmptyAnalysis
    /\ result = EmptyResult
    /\ note_events = <<>>
    /\ run = 1
    /\ first = NoRun
    /\ main_pc = "connect"
    /\ receiver_task = NoTask
    /\ stop_event = FALSE
    /\ recorder = [audio_data |-> <<>>, chunk_count |-> 0]
    /\ stream = [delivered |-> 0, open |-> FALSE]
    /\ saved = <<>>
    /\ send_error = "none"

\* async with client.aio.live.music.connect(...) as session, TaskGroup() as tg:
\* the connection fails, or the session opens, the receiver task is created
\* and the send path reaches its first await
Connect ==
    /\ main_pc = "connect"
    /\ \/ /\ main_pc' = "connect_failed"
          /\ UNCHANGED <<receiver_task, stream>>
       \/ /\ main_pc' = "set_music_generation_config"
          /\ receiver_task' = [NoTask EXCEPT !.state = "created"]
          /\ stream' = [delivered |-> 0, open |-> TRUE]
    /\ UNCHANGED <<stop_event, recorder, saved, send_error>>
    /\ UNCHANGED converter_vars

\* an await of the send path returns and the coroutine runs on to the next
\* await; an exception of session.send is caught by the inner try
SendPathStep ==
    /\ main_pc \in SendAwaits \ {"sleep"}
    /\ \E with_audio \in BOOLEAN : main_pc' = next_await(main_pc, with_audio)
    /\ UNCHANGED <<receiver_task, stop_event, recorder, stream, saved, send_error>>
    /\ UNCHANGED converter_vars

\* the finally block: stop_event.set(), receiver_task.cancel(), await
\* receiver_task, and recorder.save() when the await lets the coroutine go on
finally_block(err) ==
    /\ send_error' = err
    /\ stop_event' = TRUE
    /\ receiver_task' = cancel(receiver_task)
    /\ IF await_returns(cancel(receiver_task))
       THEN /\ saved' = Append(saved, save(recorder, cancel(receiver_task), TRUE))
            /\ main_pc' = "exit"
       ELSE /\ main_pc' = "await receiver_task"
            /\ UNCHANGED saved
    /\ UNCHANGED <<recorder, stream>>
    /\ UNCHANGED converter_vars

\* an await of the send path raises: except Exception, then the finally block
SendPathRaises ==
    /\ main_pc \in SendAwaits \ {"send"}
    /\ finally_block("Exception")

\* asyncio.sleep(duration) returns: the finally block
SleepReturns ==
    /\ main_pc = "sleep"
    /\ finally_block("none")

\* the coroutine resumes from "await receiver_task" and calls recorder.save()
ReceiverAwaited ==
    /\ main_pc = "await receiver_task"
    /\ await_returns(receiver_task)
    /\ saved' = Append(saved, save(recorder, receiver_task, stop_event))
    /\ main_pc' = "exit"
    /\ UNCHANGED <<receiver_task, stop_event, recorder, stream, send_error>>
    /\ UNCHANGED converter_vars

\* leaving the async with: the task group has no running task, the session closes
Exit ==
    /\ main_pc = "exit"
    /\ receiver_task.state = "done"
    /\ main_pc' = "closed"
    /\ stream' = [stream EXCEPT !.open = FALSE]
    /\ UNCHANGED <<receiver_task, stop_event, recorder, saved, send_error>>
    /\ UNCHANGED converter_vars

\* the first step of the receiver task: receive_audio_loop runs to its first
\* await; a task cancelled before its first step never enters the coroutine
ReceiverStarts ==
    /\ receiver_task.state = "created"
    /\ receiver_task' =
          [receiver_task EXCEPT !.state = IF receiver_task.must_cancel THEN "done"
                                          ELSE "waiting",
                                !.must_cancel = FALSE]
    /\ UNCHANGED <<main_pc, stop_event, recorder, stream, saved, send_error>>
    /\ UNCHANGED converter_vars

\* session.receive() yields a message: the loop body
ReceiveMessage ==
    /\ receiver_task.state = "waiting"
    /\ ~receiver_task.must_cancel
    /\ stream.open
    /\ stream.delivered < MaxMessages
    /\ stream' = [stream EXCEPT !.delivered = stream.delivered + 1]
    /\ IF stop_event
       THEN /\ receiver_task' = [receiver_task EXCEPT !.state = "done"]
            /\ UNCHANGED recorder
       ELSE /\ \E n \in 0 .. MaxChunksPerMessage :
                  recorder' = add_chunks(recorder, audio_chunks(stream.delivered + 1, n))
            /\ UNCHANGED receiver_task
    /\ UNCHANGED <<main_pc, stop_event, saved, send_error>>
    /\ UNCHANGED converter_vars

\* session.receive() ends or raises (except Exception): the loop is over
ReceiveEnds ==
    /\ receiver_task.state = "waiting"
    /\ ~receiver_task.must_cancel
    /\ stream.open
    /\ receiver_task' = [receiver_task EXCEPT !.state = "done"]
    /\ stream' = [stream EXCEPT !.open = FALSE]
    /\ UNCHANGED <<main_pc, stop_event, recorder, saved, send_error>>
    /\ UNCHANGED converter_vars

\* the cancelled task resumes with CancelledError: except asyncio.CancelledError
ReceiverCancelled ==
    /\ receiver_task.state = "waiting"
    /\ receiver_task.must_cancel
    /\ receiver_task' = [receiver_task EXCEPT !.state = "done", !.must_cancel = FALSE]
    /\ UNCHANGED <<main_pc, stop_event, recorder, stream, saved, send_error>>
    /\ UNCHANGED converter_vars

NextSession ==
    \/ Connect \/ SendPathStep \/ SendPathRaises \/ SleepReturns \/ ReceiverAwaited
    \/ Exit \/ ReceiverStarts \/ ReceiveMessage \/ ReceiveEnds \/ ReceiverCancelled

SpecSession == InitSession /\ [][NextSession]_vars

----------------------------------------------------------------------------
(* Properties                                                              *)

Done == pc = "done"

\* the tracks of PIANO_NOTES that have an entry in active_notes_data
Detected(k) == PIANO_NOTES[k] \in DOMAIN analysis_result.active_notes_data

\* the number of true steps of a track list, summed over its tracks
CountTrue(tracks) ==
    SumSeq([k \in DOMAIN tracks |->
              Cardinality({i \in DOMAIN tracks[k].steps : tracks[k].steps[i]})])

\* C1: build_track_data emits exactly 88 tracks and every track's steps
\* sequence is as long as the emitted stepCount.
C1_TracksMatchStepCount ==
    Done =>
        /\ Len(result.tracks) = 88
        /\ \A k \in DOMAIN result.tracks :
              Len(result.tracks[k].steps) = result.stepCount

\* C2: for every configuration validate() accepts, the emitted stepCount is a
\* multiple of 16 and at most max_steps.
C2_StepCountMultipleOf16 ==
    pc \in {"analyzed", "done"} =>
        /\ analysis_result.target_steps % 16 = 0
        /\ analysis_result.target_steps <= config.max_steps
        /\ Done => result.stepCount = analysis_result.target_steps

\* C3: every track's volume lies in [-40, 0] (in tenths: -400 .. 0) in either
\* normalization branch, and a track without an activation entry has volume -5.
C3_VolumeClamped ==
    Done =>
        \A k \in DOMAIN result.tracks :
            /\ result.tracks[k].volume >= -400
            /\ result.tracks[k].volume <= 0
            /\ ~Detected(k) => result.tracks[k].volume = -50

\* C3 witness: a detected track whose computed volume lay below -40 and was
\* clamped, in the amplitude-relative branch.
C3_Witness ==
    /\ Done
    /\ ~db_branch(config, analysis_result)
    /\ \E k \in DOMAIN result.tracks :
          /\ Detected(k)
          /\ LET v == raw_volume(config, analysis_result,
                                 analysis_result.active_notes_data[PIANO_NOTES[k]].magnitudes)
             IN  ~v.nan /\ v.v10 < -400
          /\ result.tracks[k].volume = -400

\* C4: with no recorded activation at all, no track has a true step, exactly
\* the tracks of MIDI 48..72 (tracks 37..61 of the C8-down order) are visible,
\* the fallback changes nothing but the hidden flag, and no output ever has
\* all 88 tracks hidden.
C4_SilentFallback ==
    Done =>
        /\ \E k \in DOMAIN result.tracks : ~result.tracks[k].hidden
        /\ DOMAIN analysis_result.active_notes_data = {} =>
              \A k \in DOMAIN result.tracks :
                  /\ \A i \in DOMAIN result.tracks[k].steps : ~result.tracks[k].steps[i]
                  /\ result.tracks[k].hidden = ~(k \in 37 .. 61)
                  /\ result.tracks[k].volume = -50
                  /\ [result.tracks[k] EXCEPT !.hidden = TRUE]
                        = build_track(config, analysis_result, PIANO_NOTES[k])

\* C4 witness: an all-silent run, C4 (track 49) visible, C8 (track 1) hidden.
C4_Witness ==
    /\ Done
    /\ audio.clip = "silence"
    /\ DOMAIN analysis_result.active_notes_data = {}
    /\ ~result.tracks[49].hidden
    /\ result.tracks[1].hidden

\* C5: a supplied BPM override is what detect_tempo returns, whatever the
\* audio and the estimator do, and the bpm field is the override rounded to
\* the nearest integer (override 140 gives 140).
C5_OverrideWins ==
    OverrideGiven(config) =>
        /\ pc \in {"tempo", "analyzed", "done"} => tempo10 = config.bpm_override.v10
        /\ Done =>
              /\ Abs(10 * result.bpm - config.bpm_override.v10) <= 5
              /\ config.bpm_override.v10 = 1400 => result.bpm = 140

\* C5 witness: override 140 on silent audio (where the estimator yields 0).
C5_Witness ==
    /\ Done
    /\ config.bpm_override = Override(1400)
    /\ audio.clip = "silence"
    /\ result.bpm = 140

\* C6: the tempo detect_tempo hands on is always > 0.
C6_TempoPositive ==
    pc \in {"tempo", "analyzed", "done"} => tempo10 > 0

\* the configuration breaks one of the documented bounds
BadConfig ==
    \/ config.method \notin {"librosa", "basic_pitch", "pop2piano"}
    \/ config.max_steps < 16 \/ config.max_steps > 1024
    \/ config.threshold_db < 10 \/ config.threshold_db > 80

\* C7: an unsupported method, a max_steps outside 16..1024 or a threshold_db
\* outside 10..80 makes construction fail with a configuration error and
\* load_audio is never reached; a run that reaches load_audio holds a
\* configuration within the bounds.
C7_ValidateBeforeLoad ==
    /\ BadConfig =>
          /\ pc \in {"start", "failed"}
          /\ pc = "failed" => error \in {"ValueError", "RuntimeError"}
          /\ ~load_reached
    /\ load_reached => ~BadConfig
    /\ error \in {"ValueError", "RuntimeError"} => ~load_reached

\* C7 witness: max_steps = 1025 alone is out of bounds and construction failed.
C7_Witness ==
    /\ pc = "failed"
    /\ error = "ValueError"
    /\ config.method = "librosa"
    /\ config.max_steps = 1025
    /\ config.threshold_db = 80

\* C8: convert() fails only at configuration validation or at audio loading;
\* once the audio is loaded no analysis outcome makes it raise.
C8_AllOrNothing ==
    pc = "failed" =>
        error \in {"ValueError", "RuntimeError", "FileNotFoundError", "DecodeError"}

\* the true steps of the whole pattern had the run used threshold_db = t
TrueStepsAt(t) ==
    LET cfg == [config EXCEPT !.threshold_db = t]
    IN  CountTrue(build_track_data(cfg,
            analyze_with_librosa(cfg, audio, tempo10, env.legacy_promotion)).tracks)

ValidThresholds == {t \in ThresholdValues : t >= 10 /\ t <= 80}

C10_AmplitudePolicyForEvents ==
    (Done /\ ~analysis_result.has_threshold_db) =>
        /\ ~db_branch(config, analysis_result)
        /\ \A k \in DOMAIN result.tracks :
              LET mags == IF Detected(k)
                          THEN analysis_result.active_notes_data[PIANO_NOTES[k]].magnitudes
                          ELSE <<>>
              IN  Len(mags) > 0 =>
                      result.tracks[k].volume =
                          clamp_volume(amp_volume(SumSeq(mags), Len(mags),
                                                  analysis_result.mag_den))

RecordedSteps(k) ==
    IF Detected(k) THEN analysis_result.active_notes_data[PIANO_NOTES[k]].steps ELSE {}

\* C12: for each of the 88 pitches the built steps sequence has target_steps
\* positions and is true at index i exactly when i is a recorded step index of
\* the pitch with 0 <= i < target_steps; a recorded index >= target_steps sets
\* no position at all.
C12_StepsExactlyRecorded ==
    Done =>
        \A k \in DOMAIN result.tracks :
            /\ Len(result.tracks[k].steps) = Max(0, analysis_result.target_steps)
            /\ \A i \in 0 .. analysis_result.target_steps - 1 :
                  result.tracks[k].steps[i + 1] <=> i \in RecordedSteps(k)

\* C12 witness: the record of C4 holds the indices 0, 16 and 24 with
\* target_steps = 16; only position 0 of the C4 track is true.
C12_Witness ==
    /\ Done
    /\ analysis_result.target_steps = 16
    /\ RecordedSteps(49) = {0, 16, 24}
    /\ result.tracks[49].steps[1]
    /\ CountTrue(result.tracks) = 1

\* the peaks the step loop of analyze_with_librosa finds in this run, as
\* (step, bin_idx, mag)
DetectedPeaks ==
    UNION {step_peaks(s, audio, config.hop_length, tempo10,
                      RefDb(audio, config.hop_length), cutoff_db(config, audio)) :
             s \in steps_visited(0, analysis_result.target_steps, audio,
                                 config.hop_length, tempo10)}

\* the track of the piano key of CQT bin b: bin 0 is A0 (track 88), bin 87 is C8
TrackOfBin(b) == 88 - b

\* C13: every peak detected at bin b in step s, for naturals and sharps alike,
\* makes the track of that piano key visible with steps[s] true.
C13_EveryPeakReachesItsTrack ==
    (Done /\ config.method = "librosa") =>
        \A h \in DetectedPeaks :
            /\ result.tracks[TrackOfBin(h[2])].steps[h[1] + 1]
            /\ ~result.tracks[TrackOfBin(h[2])].hidden

\* the pooled spectrum of step s in this run, in dB re the matrix maximum ref
SpectrumWithRef(ref, s) ==
    step_spectrum(audio, config.hop_length, ref,
                  frame_of(audio, config.hop_length, tempo10, s),
                  frame_of(audio, config.hop_length, tempo10, s + 1))

SpectrumOfStep(s) == SpectrumWithRef(RefDb(audio, config.hop_length), s)

\* C14: in the step loop every recorded magnitude is the value of the step's
\* pooled spectrum at the bin of the pitch, is >= the cutoff max_db - threshold_db,
\* and the bin is an interior bin not lower than either neighbour; one
\* magnitude is recorded per recorded step.
C14_RecordedAtOrAboveCutoff ==
    (pc \in {"analyzed", "done"} /\ config.method = "librosa") =>
        LET data == analysis_result.active_notes_data
            ref == RefDb(audio, config.hop_length)
            cutoff == max_db(audio, config.hop_length, ref) - config.threshold_db
        IN  \A note \in DOMAIN data :
              /\ Len(data[note].magnitudes) = Cardinality(data[note].steps)
              /\ \E b \in 1 .. 86 :
                    /\ bin_to_note(b) = note
                    /\ \A i \in DOMAIN data[note].magnitudes :
                          LET s == Ascending(data[note].steps)[i]
                              x == SpectrumWithRef(ref, s)
                          IN  /\ data[note].magnitudes[i] = 100 * x[b]
                              /\ x[b] >= cutoff
                              /\ x[b] >= x[b - 1]
                              /\ x[b] >= x[b + 1]

\* C14 witness: the chord at threshold_db = 40: G4 (30 dB below the maximum)
\* is recorded, C5 (55 dB below, a local maximum all the same) is not.
C14_Witness ==
    /\ pc = "analyzed"
    /\ config.method = "librosa"
    /\ config.threshold_db = 40
    /\ audio.clip = "chord"
    /\ <<"G", "", 4>> \in DOMAIN analysis_result.active_notes_data
    /\ <<"C", "", 5>> \notin DOMAIN analysis_result.active_notes_data
    /\ \E s \in analysis_result.active_notes_data[<<"G", "", 4>>].steps :
          /\ SpectrumOfStep(s)[51] > SpectrumOfStep(s)[50]
          /\ SpectrumOfStep(s)[51] > SpectrumOfStep(s)[52]

\* the steps whose start frame, and that of every step before them, is a
\* column of the matrix
StepsWithinSignal ==
    {s \in 0 .. analysis_result.target_steps - 1 :
        \A u \in 0 .. s :
            frame_of(audio, config.hop_length, tempo10, u) < n_frames(audio, config.hop_length)}

\* the columns pooled for step s: start_frame alone, or start_frame up to
\* min(end_frame, shape[1]) - 1
FramesPooled(s) ==
    LET start_frame == frame_of(audio, config.hop_length, tempo10, s)
        end_frame == frame_of(audio, config.hop_length, tempo10, s + 1)
    IN  IF start_frame = end_frame THEN {start_frame}
        ELSE start_frame .. Min(end_frame, n_frames(audio, config.hop_length)) - 1

\* C15: the step loop runs for steps 0, 1, 2, ... up to, and not including,
\* the first step whose start frame is >= the number of frames: every recorded
\* step s has 0 <= s < target_steps and a start frame inside the matrix, the
\* columns pooled for it are columns of the matrix, and every step before the
\* stopping point has its peaks recorded.
C15_StepLoopStopsAtSignalEnd ==
    (pc \in {"analyzed", "done"} /\ config.method = "librosa") =>
        LET data == analysis_result.active_notes_data
            cutoff == analysis_result.threshold_db
            ref == RefDb(audio, config.hop_length)
            within == Explicit(StepsWithinSignal)
        IN  /\ \A note \in DOMAIN data : data[note].steps \subseteq within
            /\ \A s \in within :
                  /\ FramesPooled(s) # {}
                  /\ FramesPooled(s) \subseteq
                        0 .. n_frames(audio, config.hop_length) - 1
                  /\ LET x == SpectrumWithRef(ref, s)
                     IN  \A b \in 1 .. 86 :
                            (x[b] >= cutoff /\ x[b] > x[b - 1] /\ x[b] > x[b + 1])
                               => /\ bin_to_note(b) \in DOMAIN data
                                  /\ s \in data[bin_to_note(b)].steps

\* C15 witness: 16 target steps over a matrix of 5 frames, one frame per step:
\* C4 is recorded in steps 0..4 and the loop stopped at step 5.
C15_Witness ==
    /\ pc = "analyzed"
    /\ config.method = "librosa"
    /\ audio.clip = "tone_C4"
    /\ analysis_result.target_steps = 16
    /\ n_frames(audio, config.hop_length) = 5
    /\ frame_of(audio, config.hop_length, tempo10, 5) >= 5
    /\ analysis_result.active_notes_data[<<"C", "", 4>>].steps = 0 .. 4

\* the step indices the claim gives a note event: floor(start / stepDuration)
\* up to min(floor(end / stepDuration), target_steps - 1)
EventSteps(ev) ==
    step_of(ev.start_ms, tempo10)
      .. Min(step_of(ev.end_ms, tempo10), analysis_result.target_steps - 1)

\* the events of the detector output that carry the pitch recorded as note
EventsOf(note) ==
    {i \in DOMAIN note_events : midi_to_note(note_events[i].pitch_midi) = note}

\* C16 (ranges only): a record holds exactly the step indices of the events of
\* its pitch, and one amplitude for each activated step of each event.
C16_RangesOnly ==
    (pc \in {"analyzed", "done"} /\ config.method \in {"basic_pitch", "pop2piano"}) =>
        LET data == analysis_result.active_notes_data
        IN  /\ analysis_result.target_steps = target_steps(config, audio, tempo10)
            /\ DOMAIN data = {midi_to_note(note_events[i].pitch_midi) : i \in DOMAIN note_events}
            /\ \A note \in DOMAIN data :
                  /\ data[note].steps = UNION {EventSteps(note_events[i]) : i \in EventsOf(note)}
                  /\ Len(data[note].magnitudes) =
                        SumSeq([i \in DOMAIN note_events |->
                                  IF i \in EventsOf(note)
                                  THEN Cardinality(EventSteps(note_events[i])) ELSE 0])

\* C16: the adapter maps each note event to the step indices
\* floor(start / stepDuration) .. min(floor(end / stepDuration), target_steps - 1)
\* of its pitch with one amplitude per activated step, and every pitch that has
\* a record has at least one recorded step and a non-empty magnitude list.
C16_AdapterRecordsNonEmpty ==
    /\ C16_RangesOnly
    /\ (pc \in {"analyzed", "done"} /\ config.method \in {"basic_pitch", "pop2piano"}) =>
          \A note \in DOMAIN analysis_result.active_notes_data :
              /\ analysis_result.active_notes_data[note].steps # {}
              /\ Len(analysis_result.active_notes_data[note].magnitudes) > 0

\* C17: when some track is visible by detection (the fallback has not fired),
\* a track is visible exactly when one of its steps is true, and a hidden track
\* has volume -5 and no true step, whichever back-end produced the records.
C17_VisibleIffHasTrueStep ==
    (Done /\ \E k \in DOMAIN result.tracks : Detected(k)) =>
        \A k \in DOMAIN result.tracks :
            /\ ~result.tracks[k].hidden
                  <=> \E i \in DOMAIN result.tracks[k].steps : result.tracks[k].steps[i]
            /\ result.tracks[k].hidden =>
                  /\ result.tracks[k].volume = -50
                  /\ \A i \in DOMAIN result.tracks[k].steps : ~result.tracks[k].steps[i]

\* the MIDI number of track k of the canonical order: C8 = 108 first, A0 = 21 last
MidiOfTrack(k) == 109 - k

\* C18: the 88 tracks come out in the order C8 down to A0, track k being
\* PIANO_NOTES[k], one semitone below track k - 1, whatever was detected; the
\* pitch setting of every track is its MIDI number minus 60 (C8: 48, C4: 0,
\* A0: -39) and the envelope defaults are attached to hidden and visible tracks
\* alike.
C18_CanonicalOrderAndPitch ==
    Done =>
        /\ Len(result.tracks) = 88
        /\ \A k \in DOMAIN result.tracks :
              /\ result.tracks[k].name = PIANO_NOTES[k]
              /\ result.tracks[k].id = <<"piano-", PIANO_NOTES[k]>>
              /\ note_to_midi(result.tracks[k].name) = MidiOfTrack(k)
              /\ result.tracks[k].settings =
                    [pitch |-> MidiOfTrack(k) - 60, decay100 |-> 50, attack100 |-> 1,
                     distortion |-> 0, sustain100 |-> 30, release100 |-> 80,
                     cutoff |-> 20000, resonance |-> 1]
        /\ result.tracks[1].name = <<"C", "", 8>> /\ result.tracks[1].settings.pitch = 48
        /\ result.tracks[49].name = <<"C", "", 4>> /\ result.tracks[49].settings.pitch = 0
        /\ result.tracks[88].name = <<"A", "", 0>> /\ result.tracks[88].settings.pitch = -39

\* C18 witness: a pattern with C4 visible by detection and C8 hidden, both
\* carrying their offsets.
C18_Witness ==
    /\ Done
    /\ Detected(49)
    /\ ~result.tracks[49].hidden
    /\ result.tracks[49].settings.pitch = 0
    /\ result.tracks[1].hidden
    /\ result.tracks[1].settings.pitch = 48
    /\ result.tracks[88].settings.pitch = -39

\* C19: in the streaming script recorder.save() runs at most once, and when
\* it runs stop_event is set, receiver_task.cancel() has been called and the
\* receiver task has finished; the recorder holds what save() wrote, so no chunk
\* was appended after it; every session that connected and left the finally
\* block has saved, with or without an exception in the send path; and
\* chunk_count is always the number of chunks appended.
C19_TeardownOrdered ==
    /\ recorder.chunk_count = Len(recorder.audio_data)
    /\ Len(saved) <= 1
    /\ \A i \in DOMAIN saved :
          /\ saved[i].stop_event
          /\ saved[i].cancel_called
          /\ saved[i].receiver_state = "done"
          /\ saved[i].audio_data = recorder.audio_data
    /\ main_pc \in {"exit", "closed"} <=> Len(saved) = 1

\* C19 witness: a session whose send path raised, whose receiver had appended
\* chunks and was cancelled in its await, closed with one save() of all chunks.
C19_Witness ==
    /\ main_pc = "closed"
    /\ send_error = "Exception"
    /\ Len(saved) = 1
    /\ Len(saved[1].audio_data) >= 2
    /\ recorder.chunk_count = Len(saved[1].audio_data)
    /\ receiver_task.cancel_called

====
